---- MODULE Spec2Model ----
(***************************************************************************)
(* Model of the tool-calling core of tool-use-bible: tool.py               *)
(* (get_fn_signature, validate_argument, Tool) and tool_agent.py           *)
(* (extract_tag_content, ToolAgent.run and the __main__ loop).             *)
(*                                                                         *)
(* A turn of ToolAgent.run is a sequence of steps; `pc` is the position of *)
(* the interpreter inside run.  The model client and the wrapped tool      *)
(* callables are external: what they return or raise is chosen with \E.    *)
(***************************************************************************)
EXTENDS Integers, Sequences, FiniteSets, TLC

(***************************************************************************)
(* Bounds of the model.                                                    *)
(***************************************************************************)
MaxTurns == 2      \* calls of ToolAgent.run made by the __main__ loop
MaxLen == 3        \* pieces in the content of model call #1's response
MaxArgs == 2       \* entries in the "arguments" object of an invocation
MaxInt == 12       \* integers written as text run over -MaxInt..MaxInt
MaxText == 4       \* pieces in a text given to extract_tag_content on its own
MaxTools == 3      \* tools in a list searched by name on its own
MaxWords == 3      \* words in a text given to parse_intent

(***************************************************************************)
(* Python values.  Every value is a record of one shape: t is the runtime  *)
(* type, n the number it carries (floats are kept in tenths), s the text   *)
(* it carries as a sequence of characters.                                 *)
(***************************************************************************)
VInt(n) == [t |-> "int", n |-> n, s |-> <<>>]
VStr(s) == [t |-> "str", n |-> 0, s |-> s]
VBool(b) == [t |-> "bool", n |-> IF b THEN 1 ELSE 0, s |-> <<>>]
VFloat(tenths) == [t |-> "float", n |-> tenths, s |-> <<>>]
VNone == [t |-> "NoneType", n |-> 0, s |-> <<>>]
VList == [t |-> "list", n |-> 0, s |-> <<>>]

\* isinstance(v, type_mapping[tname]); bool is a subclass of int.
IsInstance(v, tname) ==
    CASE tname = "int" -> v.t \in {"int", "bool"}
      [] tname = "str" -> v.t = "str"
      [] tname = "bool" -> v.t = "bool"
      [] tname = "float" -> v.t = "float"
      [] OTHER -> FALSE

DigitChars == <<"0", "1", "2", "3", "4", "5", "6", "7", "8", "9">>
IsDigit(c) == \E i \in 1..10 : DigitChars[i] = c
DigitVal(c) == (CHOOSE i \in 1..10 : DigitChars[i] = c) - 1
IsSpace(c) == c \in {" ", "\n"}

\* str.strip(): leading and trailing whitespace removed.
RECURSIVE LStrip(_)
LStrip(s) == IF s # <<>> /\ IsSpace(Head(s)) THEN LStrip(Tail(s)) ELSE s

RECURSIVE RStrip(_)
RStrip(s) ==
    IF s # <<>> /\ IsSpace(s[Len(s)]) THEN RStrip(SubSeq(s, 1, Len(s) - 1)) ELSE s

Strip(s) == RStrip(LStrip(s))

AllDigits(s) == s # <<>> /\ \A i \in 1..Len(s) : IsDigit(s[i])

RECURSIVE DigitsVal(_)
DigitsVal(s) ==
    IF s = <<>> THEN 0 ELSE 10 * DigitsVal(SubSeq(s, 1, Len(s) - 1)) + DigitVal(s[Len(s)])

Unsigned(s) == IF s # <<>> /\ Head(s) \in {"-", "+"} THEN Tail(s) ELSE s
Sign(s) == IF s # <<>> /\ Head(s) = "-" THEN -1 ELSE 1

\* the position of the first "." of s, 0 when there is none
DotPos(s) ==
    IF \E i \in 1..Len(s) : s[i] = "."
    THEN CHOOSE i \in 1..Len(s) : s[i] = "." /\ \A j \in 1..(i - 1) : s[j] # "."
    ELSE 0

\* int(text) accepts optional surrounding whitespace, an optional sign and digits.
IntTextOk(s) == AllDigits(Unsigned(Strip(s)))
IntOfText(s) == Sign(Strip(s)) * DigitsVal(Unsigned(Strip(s)))

\* float(text) accepts what int(text) accepts and digits "." digit (one
\* fractional digit is what a value kept in tenths can carry).
FloatTextOk(s) ==
    LET u == Unsigned(Strip(s))
        d == DotPos(u)
    IN  \/ AllDigits(u)
        \/ /\ d > 0
           /\ Len(u) = d + 1
           /\ IsDigit(u[Len(u)])
           /\ (d = 1 \/ AllDigits(SubSeq(u, 1, d - 1)))
FloatOfText(s) ==
    LET u == Unsigned(Strip(s))
        d == DotPos(u)
    IN  IF d = 0
        THEN Sign(Strip(s)) * 10 * DigitsVal(u)
        ELSE Sign(Strip(s)) * (10 * DigitsVal(SubSeq(u, 1, d - 1)) + DigitVal(u[Len(u)]))

RECURSIVE NatText(_)
NatText(n) ==
    IF n < 10 THEN <<DigitChars[n + 1]>> ELSE NatText(n \div 10) \o <<DigitChars[(n % 10) + 1]>>

IntText(n) == IF n < 0 THEN <<"-">> \o NatText(-n) ELSE NatText(n)
Abs(n) == IF n < 0 THEN -n ELSE n
\* int(float) truncates towards zero
Trunc10(tenths) == IF tenths < 0 THEN -((-tenths) \div 10) ELSE tenths \div 10
FloatText(tenths) ==
    (IF tenths < 0 THEN <<"-">> ELSE <<>>)
        \o NatText(Abs(tenths) \div 10) \o <<".">> \o NatText(Abs(tenths) % 10)

\* str(v)
StrOf(v) ==
    CASE v.t = "str" -> v.s
      [] v.t = "int" -> IntText(v.n)
      [] v.t = "float" -> FloatText(v.n)
      [] v.t = "bool" -> IF v.n = 1 THEN <<"T", "r", "u", "e">> ELSE <<"F", "a", "l", "s", "e">>
      [] v.t = "NoneType" -> <<"N", "o", "n", "e">>
      [] OTHER -> <<"[", "]">>

\* bool(v): the truth value of v
Truthy(v) ==
    CASE v.t = "str" -> v.s # <<>>
      [] v.t \in {"int", "float", "bool"} -> v.n # 0
      [] OTHER -> FALSE

\* type_mapping[tname](v): [ok |-> TRUE, v |-> converted] or
\* [ok |-> FALSE, exc |-> the exception the constructor raises].
Convert(tname, v) ==
    CASE tname = "str" -> [ok |-> TRUE, v |-> VStr(StrOf(v)), exc |-> "-"]
      [] tname = "bool" -> [ok |-> TRUE, v |-> VBool(Truthy(v)), exc |-> "-"]
      [] tname = "int" ->
            CASE v.t = "str" ->
                    IF IntTextOk(v.s)
                    THEN [ok |-> TRUE, v |-> VInt(IntOfText(v.s)), exc |-> "-"]
                    ELSE [ok |-> FALSE, v |-> v, exc |-> "ValueError"]
              [] v.t = "float" -> [ok |-> TRUE, v |-> VInt(Trunc10(v.n)), exc |-> "-"]
              [] v.t \in {"int", "bool"} -> [ok |-> TRUE, v |-> VInt(v.n), exc |-> "-"]
              [] OTHER -> [ok |-> FALSE, v |-> v, exc |-> "TypeError"]
      [] tname = "float" ->
            CASE v.t = "str" ->
                    IF FloatTextOk(v.s)
                    THEN [ok |-> TRUE, v |-> VFloat(FloatOfText(v.s)), exc |-> "-"]
                    ELSE [ok |-> FALSE, v |-> v, exc |-> "ValueError"]
              [] v.t \in {"int", "bool"} -> [ok |-> TRUE, v |-> VFloat(10 * v.n), exc |-> "-"]
              [] v.t = "float" -> [ok |-> TRUE, v |-> v, exc |-> "-"]
              [] OTHER -> [ok |-> FALSE, v |-> v, exc |-> "TypeError"]
      [] OTHER -> [ok |-> FALSE, v |-> v, exc |-> "KeyError"]

(***************************************************************************)
(* Python dicts keep insertion order: a dict is a sequence of entries      *)
(* [k |-> key, v |-> value] with distinct keys.                            *)
(***************************************************************************)
Keys(d) == {d[i].k : i \in 1..Len(d)}
HasKey(d, k) == \E i \in 1..Len(d) : d[i].k = k
Get(d, k) == d[CHOOSE i \in 1..Len(d) : d[i].k = k].v

(***************************************************************************)
(* The callables of tool.py: __name__, __doc__, __annotations__ (in        *)
(* declaration order, "return" included when the function declares one)    *)
(* and the parameters of the def, all of them required.                    *)
(***************************************************************************)
fetch_daily_verse ==
    [name |-> "fetch_daily_verse",
     doc |-> "Fetches a random verse for the day",
     annotations |-> <<>>,
     params |-> {}]
search_topic ==
    [name |-> "search_topic",
     doc |-> "Searches for a verse about a specific topic using a mock-like API call",
     annotations |-> <<[k |-> "topic", v |-> "str"]>>,
     params |-> {"topic"}]
get_book_list ==
    [name |-> "get_book_list",
     doc |-> "Returns a list of all books in the bible",
     annotations |-> <<[k |-> "return", v |-> "list"]>>,
     params |-> {}]
get_verse_by_chapter ==
    [name |-> "get_verse_by_chapter",
     doc |-> "Returns required book and its chapter",
     annotations |-> <<[k |-> "book", v |-> "str"], [k |-> "chapter", v |-> "int"]>>,
     params |-> {"book", "chapter"}]

\* the dict comprehension without its filter: every annotation, "return" too
RECURSIVE SchemaWithReturn(_)
SchemaWithReturn(annotations) ==
    IF annotations = <<>> THEN <<>>
    ELSE <<[k |-> Head(annotations).k, v |-> [type |-> Head(annotations).v]]>>
             \o SchemaWithReturn(Tail(annotations))

\* the dict comprehension of get_fn_signature: every annotation but "return"
RECURSIVE Schema(_)
Schema(annotations) ==
    IF annotations = <<>> THEN <<>>
    ELSE (IF Head(annotations).k # "return"
          THEN <<[k |-> Head(annotations).k, v |-> [type |-> Head(annotations).v]]>>
          ELSE <<>>) \o Schema(Tail(annotations))

get_fn_signature(fn) ==
    [name |-> fn.name,
     description |-> fn.doc,
     parameters |-> [properties |-> Schema(fn.annotations)]]

\* Tool.__init__
Tool(name, fn, fn_signature) == [name |-> name, fn |-> fn, fn_signature |-> fn_signature]

\* the tool list built by __main__
MainTools ==
    << Tool("fetch_daily_verse", fetch_daily_verse, get_fn_signature(fetch_daily_verse)),
       Tool("search_topic", search_topic, get_fn_signature(search_topic)),
       Tool("get_book_list", get_book_list, get_fn_signature(get_book_list)),
       Tool("get_verse_by_chapter", get_verse_by_chapter,
            get_fn_signature(get_verse_by_chapter)) >>

TypeNames == {"int", "str", "bool", "float"}

(***************************************************************************)
(* A deserialized tool call (the value json.loads returns): obj says       *)
(* whether it is a JSON object; hasName / hasArgs whether the object has   *)
(* the keys "name" / "arguments"; argsDict whether "arguments" is itself   *)
(* an object, and args its entries.                                        *)
(***************************************************************************)
ToolCall(hasName, name, hasArgs, argsDict, args) ==
    [obj |-> TRUE, hasName |-> hasName, name |-> name,
     hasArgs |-> hasArgs, argsDict |-> argsDict, args |-> args]
NonObject ==
    [obj |-> FALSE, hasName |-> FALSE, name |-> "",
     hasArgs |-> FALSE, argsDict |-> FALSE, args |-> <<>>]

(***************************************************************************)
(* validate_argument: the loop over tool_call["arguments"].items(), entry  *)
(* i onwards.  The result is what the call does: it returns the (mutated)  *)
(* tool call, or raises exc because of argument arg with value val.        *)
(***************************************************************************)
Returned(call) == [ok |-> TRUE, call |-> call, exc |-> "-", arg |-> "-", val |-> VNone]
Raised(call, exc, arg, val) == [ok |-> FALSE, call |-> call, exc |-> exc, arg |-> arg, val |-> val]

RECURSIVE validate_loop(_, _, _)
validate_loop(tool_call, properties, i) ==
    IF i > Len(tool_call.args) THEN Returned(tool_call)
    ELSE LET arg_name == tool_call.args[i].k
             arg_value == tool_call.args[i].v
         IN  IF ~HasKey(properties, arg_name)
             THEN Raised(tool_call, "KeyError", arg_name, arg_value)
             ELSE LET expected_type == Get(properties, arg_name).type
                  IN  IF expected_type \notin TypeNames
                      THEN Raised(tool_call, "KeyError", arg_name, arg_value)
                      ELSE IF IsInstance(arg_value, expected_type)
                      THEN validate_loop(tool_call, properties, i + 1)
                      ELSE LET c == Convert(expected_type, arg_value)
                           IN  IF c.ok
                               THEN validate_loop(
                                        [tool_call EXCEPT !.args[i].v = c.v],
                                        properties, i + 1)
                               ELSE Raised(tool_call, "TypeError", arg_name, arg_value)

\* validate_argument without the loop: the call is returned as it came
validate_argument_unchecked(tool_call, tool_signature) == Returned(tool_call)

\* validate_argument with `if arg_name not in properties: continue`
RECURSIVE lenient_loop(_, _, _)
lenient_loop(tool_call, properties, i) ==
    IF i > Len(tool_call.args) THEN Returned(tool_call)
    ELSE IF ~HasKey(properties, tool_call.args[i].k)
    THEN lenient_loop(tool_call, properties, i + 1)
    ELSE LET expected_type == Get(properties, tool_call.args[i].k).type
             arg_value == tool_call.args[i].v
             c == Convert(expected_type, arg_value)
         IN  IF IsInstance(arg_value, expected_type)
             THEN lenient_loop(tool_call, properties, i + 1)
             ELSE IF c.ok
             THEN lenient_loop([tool_call EXCEPT !.args[i].v = c.v], properties, i + 1)
             ELSE Raised(tool_call, "TypeError", tool_call.args[i].k, arg_value)
validate_argument_lenient(tool_call, tool_signature) ==
    IF ~tool_call.argsDict
    THEN Raised(tool_call, "AttributeError", "-", VNone)
    ELSE lenient_loop(tool_call, tool_signature.parameters.properties, 1)

\* validate_argument that collects the converted values in a new dict and
\* returns only those
RECURSIVE converted_only(_, _, _, _)
converted_only(tool_call, properties, i, validated) ==
    IF i > Len(tool_call.args) THEN Returned([tool_call EXCEPT !.args = validated])
    ELSE LET arg_name == tool_call.args[i].k
             arg_value == tool_call.args[i].v
         IN  IF ~HasKey(properties, arg_name)
             THEN Raised(tool_call, "KeyError", arg_name, arg_value)
             ELSE LET expected_type == Get(properties, arg_name).type
                      c == Convert(expected_type, arg_value)
                  IN  IF IsInstance(arg_value, expected_type)
                      THEN converted_only(tool_call, properties, i + 1, validated)
                      ELSE IF c.ok
                      THEN converted_only(tool_call, properties, i + 1,
                                          Append(validated, [k |-> arg_name, v |-> c.v]))
                      ELSE Raised(tool_call, "TypeError", arg_name, arg_value)
validate_argument_converted_only(tool_call, tool_signature) ==
    IF ~tool_call.argsDict
    THEN Raised(tool_call, "AttributeError", "-", VNone)
    ELSE converted_only(tool_call, tool_signature.parameters.properties, 1, <<>>)

\* validate_argument with `except (ValueError, TypeError): pass`
RECURSIVE swallowing_loop(_, _, _)
swallowing_loop(tool_call, properties, i) ==
    IF i > Len(tool_call.args) THEN Returned(tool_call)
    ELSE LET arg_name == tool_call.args[i].k
             arg_value == tool_call.args[i].v
         IN  IF ~HasKey(properties, arg_name)
             THEN Raised(tool_call, "KeyError", arg_name, arg_value)
             ELSE LET expected_type == Get(properties, arg_name).type
                      c == Convert(expected_type, arg_value)
                  IN  IF IsInstance(arg_value, expected_type) \/ ~c.ok
                      THEN swallowing_loop(tool_call, properties, i + 1)
                      ELSE swallowing_loop([tool_call EXCEPT !.args[i].v = c.v],
                                           properties, i + 1)
validate_argument_swallowing(tool_call, tool_signature) ==
    IF ~tool_call.argsDict
    THEN Raised(tool_call, "AttributeError", "-", VNone)
    ELSE swallowing_loop(tool_call, tool_signature.parameters.properties, 1)

validate_argument(tool_call, tool_signature) ==
    IF ~tool_call.argsDict
    THEN Raised(tool_call, "AttributeError", "-", VNone)
    ELSE validate_loop(tool_call, tool_signature.parameters.properties, 1)

(***************************************************************************)
(* Text of a model response: a sequence of pieces.  The markers            *)
(* "<tool_code>" and "</tool_code>" cannot overlap one another, so any     *)
(* text splits into markers and the text between them; between markers the *)
(* model keeps whitespace, text that is no JSON ("x") and the text of one  *)
(* JSON document ("{json}").                                               *)
(***************************************************************************)
OpenMarker(tag) == "<" \o tag \o ">"
CloseMarker(tag) == "</" \o tag \o ">"

\* The tag is pasted into the pattern as it is, so it is read as a regular
\* expression: a tag of word characters stands for itself, the tag "." for
\* any one character.  TagLanguage(tag) is the set of tag names of the
\* model's texts that the expression tag matches.
OneCharNames == {"X", "Y", "."}
TagLanguage(tag) == IF tag = "." THEN OneCharNames ELSE {tag}
MatchesOpen(piece, tag) == \E name \in TagLanguage(tag) : piece = OpenMarker(name)
MatchesClose(piece, tag) == \E name \in TagLanguage(tag) : piece = CloseMarker(name)

\* re.search(f"<{tag}>(.*?)</{tag}>", text, re.DOTALL): the leftmost piece the
\* opening pattern matches that is followed by a piece the closing pattern
\* matches, and the first such closing piece after it.
MatchStart(text, tag) ==
    LET starts == {i \in 1..Len(text) :
                      /\ MatchesOpen(text[i], tag)
                      /\ \E j \in (i + 1)..Len(text) : MatchesClose(text[j], tag)}
    IN  IF starts = {} THEN 0 ELSE CHOOSE i \in starts : \A k \in starts : i <= k

MatchEnd(text, tag, i) ==
    CHOOSE j \in (i + 1)..Len(text) :
        /\ MatchesClose(text[j], tag)
        /\ \A k \in (i + 1)..(j - 1) : ~MatchesClose(text[k], tag)

\* a Python "str | None"
None == [none |-> TRUE, s |-> <<>>]
Str(s) == [none |-> FALSE, s |-> s]

\* extract_tag_content with the closing marker optional in the pattern
extract_tag_content_unclosed(text, tag) ==
    LET opens == {i \in 1..Len(text) : MatchesOpen(text[i], tag)}
        i == CHOOSE k \in opens : \A m \in opens : k <= m
        closes == {j \in (i + 1)..Len(text) : MatchesClose(text[j], tag)}
        j == IF closes = {} THEN Len(text) + 1
             ELSE CHOOSE k \in closes : \A m \in closes : k <= m
    IN  IF opens = {} THEN None ELSE Str(Strip(SubSeq(text, i + 1, j - 1)))

extract_tag_content(text, tag) ==
    LET i == MatchStart(text, tag)
    IN  IF i = 0 THEN None
        ELSE Str(Strip(SubSeq(text, i + 1, MatchEnd(text, tag, i) - 1)))

\* Python truth value of a "str | None"
Truth(x) == ~x.none /\ x.s # <<>>

(***************************************************************************)
(* Inputs of a turn.                                                       *)
(***************************************************************************)
UserMsgs == {"today's verse", "john 3"}

Pieces == {OpenMarker("tool_code"), CloseMarker("tool_code"), " ", "x", "{json}"}
SeqsUpTo(S, n) == UNION {[1..k -> S] : k \in 0..n}

\* a chat completion: how many choices it has and choices[0].message.content
Completion(choices, content) == [choices |-> choices, content |-> content]
FirstResponses ==
    {Completion(0, None), Completion(1, None)}
        \cup {Completion(1, Str(s)) : s \in SeqsUpTo(Pieces, MaxLen)}
FinalResponses ==
    {Completion(0, None), Completion(1, None), Completion(1, Str(<<>>)),
     Completion(1, Str(<<"x">>)),
     Completion(1, Str(<<OpenMarker("tool_code"), "{json}", CloseMarker("tool_code")>>))}

\* what the text "{json}" can deserialize to
ArgKeys == {"book", "chapter", "topic", "verse"}
ArgValues == {VStr(<<"3">>), VStr(<<"x">>), VInt(3), VNone}
ArgDicts ==
    {d \in SeqsUpTo([k : ArgKeys, v : ArgValues], MaxArgs) :
        \A i, j \in 1..Len(d) : d[i].k = d[j].k => i = j}
CallNames == {MainTools[i].name : i \in 1..Len(MainTools)} \cup {"no_such_tool"}
Documents ==
    {NonObject}
        \cup {ToolCall(FALSE, "", FALSE, FALSE, <<>>)}
        \cup {ToolCall(TRUE, n, FALSE, FALSE, <<>>) : n \in CallNames}
        \cup {ToolCall(FALSE, "", TRUE, TRUE, d) : d \in {<<>>}}
        \cup {ToolCall(TRUE, n, TRUE, FALSE, <<>>) : n \in CallNames}
        \cup {ToolCall(TRUE, n, TRUE, TRUE, d) : n \in CallNames, d \in ArgDicts}

\* what a tool callable can return
ToolResults == {VStr(<<"J", "n", "3">>), VList}

(***************************************************************************)
(* State: the agent (tools), the __main__ loop (turn) and the locals of    *)
(* the call of ToolAgent.run in progress.  requests is the list of message *)
(* lists the model client has been called with in this turn, executions    *)
(* the keyword arguments the tool callables have been run with, log the    *)
(* steps of the turn in the order they happened, invocation the tool call  *)
(* as json.loads returned it (validate_argument mutates the dict that      *)
(* tool_call_deserialized names).                                          *)
(* given and rets belong to the specifications that study one function on  *)
(* its own: the arguments it is given and what its calls returned.         *)
(***************************************************************************)
VARIABLES tools, turn, pc, user_msg, tool_chat_history, agent_chat_history,
          llm_response, llm_content, tool_call_json, tool_call_deserialized,
          tool_object, validated_call, observation, final_chat_history,
          final_response, result, requests, executions, log, invocation,
          given, rets

vars == <<tools, turn, pc, user_msg, tool_chat_history, agent_chat_history,
          llm_response, llm_content, tool_call_json, tool_call_deserialized,
          tool_object, validated_call, observation, final_chat_history,
          final_response, result, requests, executions, log, invocation,
          given, rets>>

locals == <<llm_response, llm_content, tool_call_json, tool_call_deserialized,
            tool_object, validated_call, observation, final_chat_history,
            final_response, invocation>>

Message(role, content) == [role |-> role, content |-> content]

\* json.dumps of one signature, as the pieces of text it is made of
RECURSIVE DumpProperties(_)
DumpProperties(properties) ==
    IF properties = <<>> THEN <<>>
    ELSE <<Head(properties).k, Head(properties).v.type>> \o DumpProperties(Tail(properties))
DumpSignature(sig) ==
    <<sig.name, sig.description>> \o DumpProperties(sig.parameters.properties)

\* ToolAgent.add_tool_signatures
RECURSIVE add_tool_signatures(_)
add_tool_signatures(ts) ==
    IF ts = <<>> THEN <<>>
    ELSE DumpSignature(Head(ts).fn_signature) \o add_tool_signatures(Tail(ts))

\* TOOL_SYSTEM_PROMPT.format(tools=formatted_tools)
SystemPrompt(ts) == <<"TOOL_SYSTEM_PROMPT">> \o add_tool_signatures(ts)

\* the outcomes of a call of run
\* The outcomes of a call of run: it returns value, or raises exc.  For a
\* returned value built by the `except Exception as e` handler, exc keeps the
\* class of the exception that was caught.
Pending == [kind |-> "pending", value |-> None, exc |-> "-"]
Return(value) == [kind |-> "return", value |-> value, exc |-> "-"]
Raise(exc) == [kind |-> "raise", value |-> None, exc |-> exc]

NoResponseMsg == Str(<<"Sorry, I couldn't get a response from the LLM.">>)
TroublePrefix == "Sorry, I had trouble processing the tool call. Error: "
\* f"Sorry, I had trouble processing the tool call. Error: {e}"
TroubleMsg(text) == Str(<<TroublePrefix>> \o text)
Caught(exc, text) == [kind |-> "return", value |-> TroubleMsg(text), exc |-> exc]

\* str(e) of the exceptions the handler can catch
KeyErrorText(key) == <<"'", key, "'">>
ConvertErrorText(arg, val) ==
    <<"Could not convert argument '", arg, "' with value '">> \o StrOf(val) \o <<"'">>

InitRun ==
    /\ tools = MainTools
    /\ turn = 0
    /\ pc = "idle"
    /\ user_msg = ""
    /\ tool_chat_history = <<>>
    /\ agent_chat_history = <<>>
    /\ llm_response = Completion(0, None)
    /\ llm_content = <<>>
    /\ tool_call_json = None
    /\ tool_call_deserialized = NonObject
    /\ tool_object = 0
    /\ validated_call = NonObject
    /\ observation = VNone
    /\ final_chat_history = <<>>
    /\ final_response = Completion(0, None)
    /\ result = Pending
    /\ requests = <<>>
    /\ executions = <<>>
    /\ log = <<>>
    /\ invocation = NonObject

Init == InitRun /\ given = <<>> /\ rets = <<>>


(***************************************************************************)
(* ToolAgent.run, step by step.                                            *)
(***************************************************************************)
Finish(r) == result' = r /\ pc' = "done"

\* run that keeps one chat history on the agent and extends it each turn
runCarryingHistory(msg) ==
    /\ pc \in {"idle", "done"}
    /\ turn < MaxTurns
    /\ turn' = turn + 1
    /\ user_msg' = msg
    /\ LET system_message == Message("system", SystemPrompt(tools))
           user_message == Message("user", <<msg>>)
           history == IF tool_chat_history = <<>>
                      THEN <<system_message, user_message>>
                      ELSE Append(tool_chat_history, user_message)
       IN  /\ tool_chat_history' = history
           /\ agent_chat_history' = history
           /\ requests' = <<history>>
    /\ llm_response' = Completion(0, None)
    /\ llm_content' = <<>>
    /\ tool_call_json' = None
    /\ tool_call_deserialized' = NonObject
    /\ tool_object' = 0
    /\ validated_call' = NonObject
    /\ observation' = VNone
    /\ final_chat_history' = <<>>
    /\ final_response' = Completion(0, None)
    /\ result' = Pending
    /\ executions' = <<>>
    /\ log' = <<"call1">>
    /\ invocation' = NonObject
    /\ pc' = "call1"
    /\ UNCHANGED <<given, rets, tools>>

\* lines 77-104: build the chat histories and issue model call #1
run(msg) ==
    /\ pc \in {"idle", "done"}
    /\ turn < MaxTurns
    /\ turn' = turn + 1
    /\ user_msg' = msg
    /\ LET system_message == Message("system", SystemPrompt(tools))
           user_message == Message("user", <<msg>>)
       IN  /\ tool_chat_history' = <<system_message, user_message>>
           /\ agent_chat_history' = <<system_message, user_message>>
           /\ requests' = << <<system_message, user_message>> >>
    /\ llm_response' = Completion(0, None)
    /\ llm_content' = <<>>
    /\ tool_call_json' = None
    /\ tool_call_deserialized' = NonObject
    /\ tool_object' = 0
    /\ validated_call' = NonObject
    /\ observation' = VNone
    /\ final_chat_history' = <<>>
    /\ final_response' = Completion(0, None)
    /\ result' = Pending
    /\ executions' = <<>>
    /\ log' = <<"call1">>
    /\ invocation' = NonObject
    /\ pc' = "call1"
    /\ UNCHANGED <<given, rets, tools>>

\* Call1Raises with the handler of the second try block
Call1RaisesCaught ==
    /\ pc = "call1"
    /\ log' = Append(log, "raise1")
    /\ Finish(Caught("APIError", <<"provider error">>))
    /\ UNCHANGED <<given, rets, tools, turn, user_msg, tool_chat_history, agent_chat_history,
                   locals, requests, executions>>

\* lines 105-107: model call #1 raised
Call1Raises ==
    /\ pc = "call1"
    /\ log' = Append(log, "raise1")
    /\ Finish(Raise("RuntimeError"))
    /\ UNCHANGED <<given, rets, tools, turn, user_msg, tool_chat_history, agent_chat_history,
                   locals, requests, executions>>

\* HasContent without the test of the content
HasChoices(response) == response.choices > 0

\* line 112: llm_response.choices and llm_response.choices[0].message.content
HasContent(response) == response.choices > 0 /\ Truth(response.content)

\* lines 101, 112-115: model call #1 returned
Call1Returns(response) ==
    /\ pc = "call1"
    /\ llm_response' = response
    /\ log' = Append(log, "return1")
    /\ IF HasContent(response)
       THEN /\ llm_content' = response.content.s
            /\ pc' = "extract"
            /\ UNCHANGED result
       ELSE /\ Finish(Return(NoResponseMsg))
            /\ UNCHANGED llm_content
    /\ UNCHANGED <<given, rets, tools, turn, user_msg, tool_chat_history, agent_chat_history,
                   tool_call_json, tool_call_deserialized, tool_object, validated_call,
                   observation, final_chat_history, final_response, requests,
                   executions, invocation>>

\* line 121: if tool_call_json
ToolCallFound(found) == Truth(found)

\* lines 118-121, 162-164: look for a tagged block
ExtractTag ==
    /\ pc = "extract"
    /\ tool_call_json' = extract_tag_content(llm_content, "tool_code")
    /\ log' = Append(log, "extract")
    /\ IF ToolCallFound(tool_call_json')
       THEN pc' = "loads" /\ UNCHANGED result
       ELSE Finish(Return(Str(llm_content)))
    /\ UNCHANGED <<given, rets, tools, turn, user_msg, tool_chat_history, agent_chat_history,
                   llm_response, llm_content, tool_call_deserialized, tool_object,
                   validated_call, observation, final_chat_history, final_response,
                   requests, executions, invocation>>

\* json.loads accepts the text of one JSON document, whitespace around it allowed
IsJson(text) == Strip(text) = <<"{json}">>

\* lines 123-125: json.loads and the two subscripts
ParseJson ==
    /\ pc = "loads"
    /\ log' = Append(log, "loads")
    /\ IF ~IsJson(tool_call_json.s)
       THEN /\ Finish(Caught("JSONDecodeError", <<"Expecting value">>))
            /\ UNCHANGED <<tool_call_deserialized, invocation>>
       ELSE \E doc \in Documents :
              /\ tool_call_deserialized' = doc
              /\ invocation' = doc
              /\ IF ~doc.obj
                 THEN Finish(Caught("TypeError", <<"not subscriptable">>))
                 ELSE IF ~doc.hasName
                 THEN Finish(Caught("KeyError", KeyErrorText("name")))
                 ELSE IF ~doc.hasArgs
                 THEN Finish(Caught("KeyError", KeyErrorText("arguments")))
                 ELSE pc' = "lookup" /\ UNCHANGED result
    /\ UNCHANGED <<given, rets, tools, turn, user_msg, tool_chat_history, agent_chat_history,
                   llm_response, llm_content, tool_call_json, tool_object,
                   validated_call, observation, final_chat_history, final_response,
                   requests, executions>>

\* a lookup that keeps the last tool of the name
FindToolLast(ts, name) ==
    IF \E i \in 1..Len(ts) : ts[i].name = name
    THEN CHOOSE i \in 1..Len(ts) : ts[i].name = name /\ \A j \in (i + 1)..Len(ts) : ts[j].name # name
    ELSE 0

\* lines 132-135: next((tool for tool in self.tools if tool.name == name), None);
\* the tool is named by its position in the list, None is 0
FindTool(ts, name) ==
    IF \E i \in 1..Len(ts) : ts[i].name = name
    THEN CHOOSE i \in 1..Len(ts) : ts[i].name = name /\ \A j \in 1..(i - 1) : ts[j].name # name
    ELSE 0

\* lines 137, 162: what run does when tool_object is None: the `if` has no else
\* branch, so the function body ends and Python returns None
ToolNotFound == Return(None)

\* lines 132-137: look the tool up
LookupTool ==
    /\ pc = "lookup"
    /\ tool_object' = FindTool(tools, tool_call_deserialized.name)
    /\ log' = Append(log, "lookup")
    /\ IF tool_object' # 0
       THEN pc' = "validate" /\ UNCHANGED result
       ELSE Finish(ToolNotFound)
    /\ UNCHANGED <<given, rets, tools, turn, user_msg, tool_chat_history, agent_chat_history,
                   llm_response, llm_content, tool_call_json, tool_call_deserialized,
                   validated_call, observation, final_chat_history, final_response,
                   requests, executions, invocation>>

\* str(e) of the exception validate_argument raised
ValidateErrorText(r) ==
    CASE r.exc = "KeyError" -> KeyErrorText(r.arg)
      [] r.exc = "TypeError" -> ConvertErrorText(r.arg, r.val)
      [] OTHER -> <<"object has no attribute 'items'">>

\* Validate that stores the converted arguments in the tool's signature
ValidateIntoSignature ==
    /\ pc = "validate"
    /\ log' = Append(log, "validate")
    /\ LET r == validate_argument(tool_call_deserialized, tools[tool_object].fn_signature)
       IN  /\ tool_call_deserialized' = r.call
           /\ tools' = [tools EXCEPT ![tool_object].fn_signature.parameters.properties =
                                         r.call.args]
           /\ IF r.ok
              THEN /\ validated_call' = r.call
                   /\ pc' = "run_tool"
                   /\ UNCHANGED result
              ELSE /\ Finish(Caught(r.exc, ValidateErrorText(r)))
                   /\ UNCHANGED validated_call
    /\ UNCHANGED <<given, rets, turn, user_msg, tool_chat_history, agent_chat_history,
                   llm_response, llm_content, tool_call_json, tool_object,
                   observation, final_chat_history, final_response, requests,
                   executions, invocation>>

\* Validate that goes on to the tool whatever the validator's outcome
ValidateThenRun ==
    /\ pc = "validate"
    /\ log' = Append(log, "validate")
    /\ LET r == validate_argument(tool_call_deserialized, tools[tool_object].fn_signature)
       IN  /\ tool_call_deserialized' = r.call
           /\ validated_call' = r.call
           /\ pc' = "run_tool"
           /\ UNCHANGED result
    /\ UNCHANGED <<given, rets, tools, turn, user_msg, tool_chat_history, agent_chat_history,
                   llm_response, llm_content, tool_call_json, tool_object,
                   observation, final_chat_history, final_response, requests,
                   executions, invocation>>

\* line 139: validate the arguments (in place) against the tool's signature
Validate ==
    /\ pc = "validate"
    /\ log' = Append(log, "validate")
    /\ LET r == validate_argument(tool_call_deserialized, tools[tool_object].fn_signature)
       IN  /\ tool_call_deserialized' = r.call
           /\ IF r.ok
              THEN /\ validated_call' = r.call
                   /\ pc' = "run_tool"
                   /\ UNCHANGED result
              ELSE /\ Finish(Caught(r.exc, ValidateErrorText(r)))
                   /\ UNCHANGED validated_call
    /\ UNCHANGED <<given, rets, tools, turn, user_msg, tool_chat_history, agent_chat_history,
                   llm_response, llm_content, tool_call_json, tool_object,
                   observation, final_chat_history, final_response, requests,
                   executions, invocation>>

\* self.fn(**kwargs) binds when the keywords are exactly the parameters of fn
Binds(fn, kwargs) == Keys(kwargs) = fn.params

\* line 143, Tool.run: call the wrapped callable with the validated arguments
ToolInvoke ==
    /\ pc = "run_tool"
    /\ log' = Append(log, "tool_call")
    /\ IF Binds(tools[tool_object].fn, validated_call.args)
       THEN /\ executions' = Append(executions,
                                    [tool |-> tool_object, kwargs |-> validated_call.args])
            /\ pc' = "in_tool"
            /\ UNCHANGED result
       ELSE /\ Finish(Caught("TypeError", <<"missing required argument">>))
            /\ UNCHANGED executions
    /\ UNCHANGED <<given, rets, tools, turn, user_msg, tool_chat_history, agent_chat_history,
                   locals, requests>>

\* ToolRaises with the tool run outside the try block
ToolRaisesEscapes ==
    /\ pc = "in_tool"
    /\ log' = Append(log, "tool_raise")
    /\ Finish(Raise("ToolError"))
    /\ UNCHANGED <<given, rets, tools, turn, user_msg, tool_chat_history, agent_chat_history,
                   locals, requests, executions>>

\* lines 143, 159-161: the callable raised; Tool.run lets it through and the
\* handler of run catches it
ToolRaises ==
    /\ pc = "in_tool"
    /\ log' = Append(log, "tool_raise")
    /\ Finish(Caught("ToolError", <<"tool error">>))
    /\ UNCHANGED <<given, rets, tools, turn, user_msg, tool_chat_history, agent_chat_history,
                   locals, requests, executions>>

\* lines 143-150: the callable returned; record the observation
ToolReturns(value) ==
    /\ pc = "in_tool"
    /\ log' = Append(log, "tool_return")
    /\ observation' = value
    /\ agent_chat_history' =
           agent_chat_history \o <<Message("assistant", StrOf(value)),
                                   Message("user", StrOf(value))>>
    /\ final_chat_history' =
           <<tool_chat_history[1], tool_chat_history[2], Message("user", StrOf(value))>>
    /\ pc' = "final_call"
    /\ UNCHANGED <<given, rets, tools, turn, user_msg, tool_chat_history, llm_response, llm_content,
                   tool_call_json, tool_call_deserialized, tool_object, validated_call,
                   final_response, result, requests, executions, invocation>>

\* FinalCall that sends the accumulated agent history
FinalCallAgentHistory ==
    /\ pc = "final_call"
    /\ requests' = Append(requests, agent_chat_history)
    /\ log' = Append(log, "call2")
    /\ pc' = "call2"
    /\ UNCHANGED <<given, rets, tools, turn, user_msg, tool_chat_history, agent_chat_history,
                   locals, result, executions>>

\* FinalCall that sends the agent history and then the final history
FinalCallBoth ==
    /\ pc = "final_call"
    /\ requests' = requests \o <<agent_chat_history, final_chat_history>>
    /\ log' = Append(log, "call2")
    /\ pc' = "call2"
    /\ UNCHANGED <<given, rets, tools, turn, user_msg, tool_chat_history, agent_chat_history,
                   locals, result, executions>>

\* lines 152-155: issue model call #2
FinalCall ==
    /\ pc = "final_call"
    /\ requests' = Append(requests, final_chat_history)
    /\ log' = Append(log, "call2")
    /\ pc' = "call2"
    /\ UNCHANGED <<given, rets, tools, turn, user_msg, tool_chat_history, agent_chat_history,
                   locals, result, executions>>

\* lines 152, 159-161: model call #2 raised inside the try block of run
Call2Failure == Caught("APIError", <<"provider error">>)

Call2Raises ==
    /\ pc = "call2"
    /\ log' = Append(log, "raise2")
    /\ Finish(Call2Failure)
    /\ UNCHANGED <<given, rets, tools, turn, user_msg, tool_chat_history, agent_chat_history,
                   locals, requests, executions>>

\* line 157: return final_response.choices[0].message.content
FinalAnswer(response) ==
    IF response.choices = 0
    THEN Caught("IndexError", <<"list index out of range">>)
    ELSE Return(response.content)

\* lines 152-157: model call #2 returned
Call2Returns(response) ==
    /\ pc = "call2"
    /\ final_response' = response
    /\ log' = Append(log, "return2")
    /\ Finish(FinalAnswer(response))
    /\ UNCHANGED <<given, rets, tools, turn, user_msg, tool_chat_history, agent_chat_history,
                   llm_response, llm_content, tool_call_json, tool_call_deserialized,
                   tool_object, validated_call, observation, final_chat_history,
                   requests, executions, invocation>>

Next ==
    \/ \E msg \in UserMsgs : run(msg)
    \/ Call1Raises
    \/ \E response \in FirstResponses : Call1Returns(response)
    \/ ExtractTag
    \/ ParseJson
    \/ LookupTool
    \/ Validate
    \/ ToolInvoke
    \/ ToolRaises
    \/ \E value \in ToolResults : ToolReturns(value)
    \/ FinalCall
    \/ Call2Raises
    \/ \E response \in FinalResponses : Call2Returns(response)

Spec == Init /\ [][Next]_vars

(***************************************************************************)
(* Properties of a turn.                                                   *)
(***************************************************************************)
Happened(e) == \E i \in 1..Len(log) : log[i] = e
Count(E) == Cardinality({i \in 1..Len(log) : log[i] \in E})
Last == IF log = <<>> THEN "-" ELSE log[Len(log)]
Done == pc = "done"

IsTrouble(r) ==
    /\ r.kind = "return"
    /\ ~r.value.none
    /\ r.value.s # <<>>
    /\ r.value.s[1] = TroublePrefix

\* text holds an opening marker that a closing marker follows
BlockPresent(text) ==
    \E i, j \in 1..Len(text) :
        i < j /\ text[i] = "<tool_code>" /\ text[j] = "</tool_code>"

ClientInFlight == Count({"call1", "call2"}) - Count({"return1", "raise1", "return2", "raise2"})
ToolInFlight == Len(executions) - Count({"tool_return", "tool_raise"})

\* C1: in a turn the model client is called at most twice and at most one tool
\* is executed, one after another: a tool runs only after model call #1 has
\* returned, model call #2 is issued only after the tool has returned, and at
\* most one of these external calls is in progress at any time.
C1_TwoCallsOneToolInSequence ==
    /\ Len(requests) <= 2
    /\ Len(executions) <= 1
    /\ Count({"call1", "call2"}) = Len(requests)
    /\ \A i \in 1..Len(log) :
          /\ log[i] = "tool_call" => \E j \in 1..(i - 1) : log[j] = "return1"
          /\ log[i] = "call2" => \E j \in 1..(i - 1) : log[j] = "tool_return"
    /\ (executions # <<>> => Happened("return1"))
    /\ (Len(requests) = 2 => Happened("tool_return"))
    /\ ClientInFlight + ToolInFlight <= 1
    /\ ClientInFlight >= 0 /\ ToolInFlight >= 0

C1_Witness == Done /\ Len(requests) = 2 /\ Len(executions) = 1 /\ Last = "return2"

\* C2 (as claimed): when the invocation of model call #1 names no tool of the
\* list, run returns a text (not nothing), runs no tool and makes no model call #2.
C2_UnknownToolGetsMessage ==
    (/\ Done
     /\ Happened("lookup")
     /\ \A i \in 1..Len(tools) : tools[i].name # invocation.name)
        => /\ result.kind = "return"
           /\ ~result.value.none
           /\ executions = <<>>
           /\ Len(requests) = 1

\* C3 (as claimed): when the content of model call #1 holds a tagged block whose
\* trimmed content is no JSON (empty content included) or is JSON without "name"
\* or "arguments", run returns the "trouble processing the tool call" message,
\* runs no tool and makes no model call #2.
C3_MalformedBlockGetsTrouble ==
    (/\ Done
     /\ Happened("extract")
     /\ BlockPresent(llm_content)
     /\ \/ ~IsJson(tool_call_json.s)
        \/ Happened("loads") /\ ~(invocation.obj /\ invocation.hasName /\ invocation.hasArgs))
        => /\ IsTrouble(result)
           /\ executions = <<>>
           /\ Len(requests) = 1

\* C4 (as claimed): a failure of model call #2 ends the turn as a failure of
\* model call #1 does, with the raised provider error, and without a retry.
C4_Call2FailureRaises ==
    (Done /\ Last = "raise2")
        => /\ result = Raise("RuntimeError")
           /\ Len(requests) = 2

\* C5: when model call #1 returns non-empty content without a tagged block, run
\* returns exactly that content, runs no tool and makes no second model call.
C5_PlainContentIsTheAnswer ==
    (/\ Done
     /\ Happened("return1")
     /\ llm_response.choices > 0
     /\ ~llm_response.content.none
     /\ llm_response.content.s # <<>>
     /\ ~BlockPresent(llm_response.content.s))
        => /\ result = Return(llm_response.content)
           /\ executions = <<>>
           /\ Len(requests) = 1
           /\ ~Happened("tool_call")

C5_Witness ==
    /\ Done
    /\ Happened("return1")
    /\ llm_response.choices > 0
    /\ llm_response.content.s = <<"<tool_code>", "{json}">>
    /\ result = Return(llm_response.content)

\* the value an argument has once coerced to the type its parameter declares
Coerced(properties, entry) ==
    LET expected_type == Get(properties, entry.k).type
    IN  [k |-> entry.k,
         v |-> IF IsInstance(entry.v, expected_type) THEN entry.v
               ELSE Convert(expected_type, entry.v).v]

CoercedArguments(call, properties) ==
    [i \in 1..Len(call.args) |-> Coerced(properties, call.args[i])]

C8_EmptyResponseGetsFixedMessage ==
    (/\ Happened("return1")
     /\ \/ llm_response.choices = 0
        \/ llm_response.content.none
        \/ llm_response.content.s = <<>>)
        => /\ Done
           /\ result = Return(NoResponseMsg)
           /\ ~Happened("extract")
           /\ executions = <<>>
           /\ Len(requests) = 1

C8_Witness ==
    /\ Done
    /\ Happened("return1")
    /\ llm_response = Completion(1, Str(<<>>))
    /\ result = Return(NoResponseMsg)

\* C9: if the wrapped callable raises, the error reaches run as it was raised and
\* is caught there as a validation error is: run returns a message that reports
\* the error, nothing is raised and model call #2 is not made.
C9_ToolErrorIsReported ==
    (Happened("tool_raise"))
        => /\ Done
           /\ IsTrouble(result)
           /\ result.exc = "ToolError"
           /\ result.value = TroubleMsg(<<"tool error">>)
           /\ Len(requests) = 1
           /\ ~Happened("call2")

C9_Witness == Done /\ Last = "tool_raise" /\ Len(executions) = 1

\* the invocation has an argument whose name the signature does not declare
HasUnknownArgument(call, sig) ==
    /\ call.argsDict
    /\ \E i \in 1..Len(call.args) : ~HasKey(sig.parameters.properties, call.args[i].k)

\* C10: for an invocation with an argument name absent from the tool's
\* signature, validate_argument raises, whatever the other arguments are; run
\* turns that into the "trouble processing" message and does not run the tool.
C10_UnknownArgumentRejected ==
    (/\ Happened("validate")
     /\ HasUnknownArgument(invocation, tools[tool_object].fn_signature))
        => /\ ~validate_argument(invocation, tools[tool_object].fn_signature).ok
           /\ Done
           /\ IsTrouble(result)
           /\ result.exc \in {"KeyError", "TypeError"}
           /\ ~Happened("tool_call")
           /\ executions = <<>>
           /\ Len(requests) = 1

C10_Witness ==
    /\ Done
    /\ Happened("validate")
    /\ invocation.name = "get_verse_by_chapter"
    /\ invocation.args = <<[k |-> "chapter", v |-> VStr(<<"3">>)], [k |-> "verse", v |-> VInt(3)]>>
    /\ result = Caught("KeyError", KeyErrorText("verse"))

(***************************************************************************)
(* validate_argument on its own: one call on a tool call and a signature   *)
(* drawn from the sets below, then a second call on what the first         *)
(* returned.                                                               *)
(***************************************************************************)
Signature(properties) ==
    [name |-> "f", description |-> "", parameters |-> [properties |-> properties]]
Property(k, tname) == [k |-> k, v |-> [type |-> tname]]

ValidateSignatures ==
    {Signature(<<Property("p", t1)>>) : t1 \in TypeNames}
        \cup {Signature(<<Property("p", t1), Property("q", t2)>>) : t1, t2 \in TypeNames}

\* texts a model can supply for an argument
IntTexts == {IntText(n) : n \in (-MaxInt)..MaxInt}
OtherTexts ==
    {<<>>, <<"x">>, <<"3", "x">>, <<"3", ".", "5">>, <<" ", "7", " ">>, <<"+", "4">>, <<"-">>}
ValidateValues ==
    {VStr(s) : s \in IntTexts \cup OtherTexts}
        \cup {VInt(0), VInt(3), VInt(-7), VBool(TRUE), VBool(FALSE),
              VFloat(35), VFloat(-20), VNone, VList}

ValidateCalls ==
    {ToolCall(TRUE, "f", TRUE, FALSE, <<>>), ToolCall(TRUE, "f", TRUE, TRUE, <<>>)}
        \cup {ToolCall(TRUE, "f", TRUE, TRUE, <<[k |-> k1, v |-> v1]>>) :
                k1 \in {"p", "q"}, v1 \in ValidateValues}
        \cup {ToolCall(TRUE, "f", TRUE, TRUE, <<[k |-> k1, v |-> v1], [k |-> k2, v |-> v2]>>) :
                k1 \in {"p"}, k2 \in {"q"}, v1 \in ValidateValues, v2 \in ValidateValues}
        \cup {ToolCall(TRUE, "f", TRUE, TRUE, <<[k |-> k1, v |-> v1], [k |-> k2, v |-> v2]>>) :
                k1 \in {"q"}, k2 \in {"p"}, v1 \in ValidateValues, v2 \in ValidateValues}

InitValidate ==
    /\ InitRun
    /\ given \in [tool_call : ValidateCalls, tool_signature : ValidateSignatures]
    /\ rets = <<>>

\* validated = validate_argument(tool_call, tool_signature)
ValidateCall ==
    /\ rets = <<>>
    /\ rets' = <<validate_argument(given.tool_call, given.tool_signature)>>
    /\ UNCHANGED <<given, tools, turn, pc, user_msg, tool_chat_history,
                   agent_chat_history, locals, result, requests, executions, log>>

\* validate_argument(validated, tool_signature)
ValidateAgain ==
    /\ Len(rets) = 1
    /\ rets[1].ok
    /\ rets' = Append(rets, validate_argument(rets[1].call, given.tool_signature))
    /\ UNCHANGED <<given, tools, turn, pc, user_msg, tool_chat_history,
                   agent_chat_history, locals, result, requests, executions, log>>

NextValidate == ValidateCall \/ ValidateAgain

SpecValidate == InitValidate /\ [][NextValidate]_vars

GivenProperties == given.tool_signature.parameters.properties

\* C11 (as claimed): whenever validate_argument returns, every argument of the
\* returned invocation has exactly the type its parameter declares (int, str,
\* bool or float), whatever the declared type and the type of the raw value,
\* a boolean given for an integer parameter included.
C11_ReturnedTypesExact ==
    \A n \in 1..Len(rets) :
        rets[n].ok =>
            \A i \in 1..Len(rets[n].call.args) :
                rets[n].call.args[i].v.t = Get(GivenProperties, rets[n].call.args[i].k).type

\* every argument is declared and has exactly the declared type
AlreadyTyped(call, properties) ==
    /\ call.argsDict
    /\ \A i \in 1..Len(call.args) :
          /\ HasKey(properties, call.args[i].k)
          /\ call.args[i].v.t = Get(properties, call.args[i].k).type

\* C12: validate_argument is idempotent: an invocation whose arguments already
\* have their declared types is returned with every value unchanged, and
\* validating the result of a successful validation again returns the same.
C12_ValidateIdempotent ==
    /\ (Len(rets) >= 1 /\ AlreadyTyped(given.tool_call, GivenProperties))
          => rets[1] = Returned(given.tool_call)
    /\ Len(rets) = 2 => rets[2] = rets[1]

C12_Witness ==
    /\ Len(rets) = 2
    /\ given.tool_call.args = <<[k |-> "p", v |-> VStr(<<"3">>)], [k |-> "q", v |-> VStr(<<"x">>)]>>
    /\ rets[1].call.args = <<[k |-> "p", v |-> VInt(3)], [k |-> "q", v |-> VStr(<<"x">>)]>>
    /\ rets[2] = rets[1]

\* texts that are no number
NonNumberTexts == {<<>>, <<"x">>, <<"3", "x">>, <<"-">>}

\* C13: for an integer parameter, validate_argument given the decimal text of
\* an integer n returns integer n for that argument (if the call fails, it is
\* not because of that argument), and given a text that is no number it raises
\* a TypeError that names the offending argument and carries its value.
C13_IntegerTexts ==
    Len(rets) >= 1 =>
        \A i \in 1..Len(given.tool_call.args) :
            LET entry == given.tool_call.args[i]
                declared_int == /\ HasKey(GivenProperties, entry.k)
                                /\ Get(GivenProperties, entry.k).type = "int"
            IN  /\ \A n \in (-MaxInt)..MaxInt :
                      (declared_int /\ entry.v = VStr(IntText(n)))
                          => IF rets[1].ok
                             THEN rets[1].call.args[i] = [k |-> entry.k, v |-> VInt(n)]
                             ELSE rets[1].arg # entry.k
                /\ (declared_int /\ entry.v.t = "str" /\ entry.v.s \in NonNumberTexts)
                      => /\ ~rets[1].ok
                         /\ rets[1].exc = "TypeError" =>
                               \E j \in 1..Len(given.tool_call.args) :
                                   /\ given.tool_call.args[j].k = rets[1].arg
                                   /\ given.tool_call.args[j].v = rets[1].val
                         /\ i = 1 => rets[1] = Raised(given.tool_call, "TypeError", entry.k, entry.v)

C13_Witness ==
    /\ Len(rets) >= 1
    /\ given.tool_signature = Signature(<<Property("p", "str"), Property("q", "int")>>)
    /\ given.tool_call.args = <<[k |-> "p", v |-> VInt(3)], [k |-> "q", v |-> VStr(<<"-", "1", "2">>)]>>
    /\ rets[1].ok
    /\ rets[1].call.args = <<[k |-> "p", v |-> VStr(<<"3">>)], [k |-> "q", v |-> VInt(-12)]>>

(***************************************************************************)
(* extract_tag_content on its own: one call on a text and a tag drawn from *)
(* the sets below.  The texts are made of the markers of the tag names     *)
(* "X", "Y" and ".", whitespace and two letters.                           *)
(***************************************************************************)
ExtractPieces ==
    {OpenMarker(name) : name \in OneCharNames}
        \cup {CloseMarker(name) : name \in OneCharNames}
        \cup {" ", "a", "b"}
ExtractTags == {"X", "."}

InitExtract ==
    /\ InitRun
    /\ given \in [text : SeqsUpTo(ExtractPieces, MaxText), tag : ExtractTags]
    /\ rets = <<>>

\* content = extract_tag_content(text, tag)
ExtractCall ==
    /\ rets = <<>>
    /\ rets' = <<extract_tag_content(given.text, given.tag)>>
    /\ UNCHANGED <<given, tools, turn, pc, user_msg, tool_chat_history,
                   agent_chat_history, locals, result, requests, executions, log>>

NextExtract == ExtractCall

SpecExtract == InitExtract /\ [][NextExtract]_vars

\* the positions of the opening markers <tag> that a closing marker </tag> follows
ClosedOpenings(text, tag) ==
    {i \in 1..Len(text) :
        /\ text[i] = OpenMarker(tag)
        /\ \E j \in (i + 1)..Len(text) : text[j] = CloseMarker(tag)}

\* the trimmed content between the first opening marker <tag> and the first
\* closing marker </tag> after it
FirstBlock(text, tag) ==
    LET i == CHOOSE k \in ClosedOpenings(text, tag) :
                 \A m \in 1..(k - 1) : text[m] # OpenMarker(tag)
        j == CHOOSE k \in (i + 1)..Len(text) :
                 /\ text[k] = CloseMarker(tag)
                 /\ \A m \in (i + 1)..(k - 1) : text[m] # CloseMarker(tag)
    IN  Strip(SubSeq(text, i + 1, j - 1))

\* C14 (as claimed): for every text and tag, extract_tag_content returns the
\* trimmed content between the first opening marker <tag> and the first closing
\* marker </tag> after it, and returns None exactly when no opening marker is
\* followed by a closing marker.
C14_FirstTaggedBlock ==
    Len(rets) = 1 =>
        IF ClosedOpenings(given.text, given.tag) = {}
        THEN rets[1] = None
        ELSE rets[1] = Str(FirstBlock(given.text, given.tag))

C16_ToolsUnchanged ==
    /\ tools = MainTools
    /\ \A i \in 1..Len(MainTools) :
          /\ tools[i].name = MainTools[i].name
          /\ tools[i].fn = MainTools[i].fn
          /\ tools[i].fn_signature = get_fn_signature(MainTools[i].fn)

\* a second turn has ended after the validator changed an argument in place
C16_Witness ==
    /\ Done
    /\ turn = 2
    /\ Happened("validate")
    /\ invocation # tool_call_deserialized
    /\ tools = MainTools

\* C17: for every registered tool the keys of the parameter mapping made by
\* get_fn_signature are the declared parameter names, the return annotation
\* excluded; a callable without parameters has an empty mapping.
C17_SignatureKeys ==
    \A i \in 1..Len(tools) :
        LET properties == get_fn_signature(tools[i].fn).parameters.properties
        IN  /\ tools[i].fn_signature.parameters.properties = properties
            /\ Keys(properties) = tools[i].fn.params
            /\ Len(properties) = Cardinality(tools[i].fn.params)
            /\ ~HasKey(properties, "return")
            /\ tools[i].fn.params = {} => properties = <<>>

\* get_book_list declares a return annotation and no parameter, and its
\* signature has been sent to the model with an empty parameter mapping
C17_Witness ==
    /\ requests # <<>>
    /\ HasKey(tools[3].fn.annotations, "return")
    /\ tools[3].fn_signature.parameters.properties = <<>>
    /\ Keys(tools[4].fn_signature.parameters.properties) = {"book", "chapter"}

\* everything a turn reads or writes, the tool list and the turn count apart
RunState ==
    <<pc, user_msg, tool_chat_history, agent_chat_history, llm_response, llm_content,
      tool_call_json, tool_call_deserialized, tool_object, validated_call, observation,
      final_chat_history, final_response, result, requests, executions, log, invocation>>

\* the state in which the first turn of a new agent starts on user message msg
FirstTurnStart(msg) ==
    LET opening == <<Message("system", SystemPrompt(MainTools)), Message("user", <<msg>>)>>
    IN  <<"call1", msg, opening, opening, Completion(0, None), <<>>,
          None, NonObject, 0, NonObject, VNone,
          <<>>, Completion(0, None), Pending, <<opening>>, <<>>, <<"call1">>, NonObject>>

\* the contents a message sent in this turn may have
TurnContents == {SystemPrompt(tools), <<user_msg>>, StrOf(observation)}

\* C18: nothing of a turn reaches the next one. Every turn, the second one
\* after whatever the first one did included, starts in the state in which
\* the first turn of a new agent on the same user message starts, so that
\* its requests and its result are those of that first turn on the same
\* model responses and tool result; and every message sent to the model is
\* made of this turn's system prompt, user message or observation.
C18_NothingCarriedAcrossTurns ==
    /\ [][turn' # turn => RunState' = FirstTurnStart(user_msg')]_vars
    /\ [](\A i \in 1..Len(requests) : \A j \in 1..Len(requests[i]) :
              requests[i][j].content \in TurnContents)

\* a second turn on the other user message has gone through both model calls
C18_Witness ==
    /\ Done
    /\ turn = 2
    /\ user_msg = "john 3"
    /\ Len(requests) = 2
    /\ requests[1] = <<Message("system", SystemPrompt(tools)), Message("user", <<"john 3">>)>>
    /\ Last = "return2"

\* C19: a run that has ended has either returned a text answer or raised the
\* provider error; it has not ended with another exception and it has not
\* returned no value.
C19_TextOrProviderError ==
    Done =>
        \/ result.kind = "return" /\ ~result.value.none
        \/ result.kind = "raise" /\ result.exc = "RuntimeError"

\* the place of each step in a turn
Rank(e) ==
    CASE e = "call1" -> 1
      [] e \in {"return1", "raise1"} -> 2
      [] e = "extract" -> 3
      [] e = "loads" -> 4
      [] e = "lookup" -> 5
      [] e = "validate" -> 6
      [] e = "tool_call" -> 7
      [] e \in {"tool_return", "tool_raise"} -> 8
      [] e = "call2" -> 9
      [] e \in {"return2", "raise2"} -> 10

\* the steps at which the turn can fail, each with its test of failure
FailedAt(e) ==
    CASE e = "raise1" -> TRUE
      [] e = "loads" -> ~IsJson(tool_call_json.s) \/ ~invocation.obj
                           \/ ~invocation.hasName \/ ~invocation.hasArgs
      [] e = "lookup" -> tool_object = 0
      [] e = "validate" ->
             ~validate_argument(invocation, tools[tool_object].fn_signature).ok
      [] e = "tool_call" -> ~Binds(tools[tool_object].fn, validated_call.args)
      [] e = "tool_raise" -> TRUE
      [] e = "raise2" -> TRUE
      [] OTHER -> FALSE

\* C20: the steps of a turn occur in the one order parse the tagged block,
\* look up the tool, validate the arguments, execute the tool, model call #2,
\* none of them skipped or repeated; a tool has been executed only if the
\* validator accepted every argument of the invocation, and then with the
\* validated arguments; a step that fails is the last step of the turn.
C20_StepsInOrder ==
    /\ \A i \in 1..Len(log) : Rank(log[i]) = i
    /\ executions # <<>> =>
          LET r == validate_argument(invocation, tools[tool_object].fn_signature)
          IN  /\ Happened("validate")
              /\ r.ok
              /\ Len(executions) = 1
              /\ executions[1] = [tool |-> tool_object, kwargs |-> r.call.args]
    /\ \A i \in 1..Len(log) :
          FailedAt(log[i]) => i = Len(log) /\ Done /\ result.kind # "pending"
    /\ result.kind # "pending" <=> Done

\* a turn stopped at the validator on the second of two arguments: the tool
\* was not executed and model call #2 was not made
C20_Witness ==
    /\ Done
    /\ Last = "validate"
    /\ Len(invocation.args) = 2
    /\ tool_call_deserialized.args[1] # invocation.args[1]
    /\ executions = <<>>
    /\ Len(requests) = 1
    /\ IsTrouble(result)

(***************************************************************************)
(* The lookup of run on its own, over tool lists in which names repeat.    *)
(***************************************************************************)
LookupNames == {"search_topic", "get_book_list", "no_such_tool"}

\* tools registered under either name for either callable
LookupTools ==
    {Tool(n, fn, get_fn_signature(fn)) :
        n \in {"search_topic", "get_book_list"}, fn \in {search_topic, get_book_list}}

InitLookup ==
    /\ InitRun
    /\ given \in [tools : SeqsUpTo(LookupTools, MaxTools), name : LookupNames]
    /\ rets = <<>>

\* tool_object = next((tool for tool in self.tools if tool.name == name), None)
LookupCall ==
    /\ rets = <<>>
    /\ rets' = <<FindTool(given.tools, given.name)>>
    /\ UNCHANGED <<given, tools, turn, pc, user_msg, tool_chat_history,
                   agent_chat_history, locals, result, requests, executions, log>>

NextLookup == LookupCall

SpecLookup == InitLookup /\ [][NextLookup]_vars

\* the positions of the tools of the requested name
Named == {i \in 1..Len(given.tools) : given.tools[i].name = given.name}

\* C21: the lookup yields the not-found sentinel (0 here, None in the code)
\* when no tool of the list has the requested name, and otherwise the first
\* tool of that name in list order; what it yields is a value in both cases,
\* and a tool it yields has the requested name.
C21_FirstToolOfTheName ==
    Len(rets) = 1 =>
        IF Named = {}
        THEN rets[1] = 0
        ELSE /\ rets[1] \in Named
             /\ \A j \in Named : rets[1] <= j
             /\ given.tools[rets[1]].name = given.name

\* two different tools share the requested name, neither is the first of the
\* list, and the earlier of the two was found
C21_Witness ==
    /\ Len(rets) = 1
    /\ Named = {2, 3}
    /\ given.tools[2] # given.tools[3]
    /\ rets[1] = 2

(***************************************************************************)
(* daily_verse_agent.py: parse_intent.  A text is a sequence of words      *)
(* separated by single blanks, so that it has no blank at either end and   *)
(* strip() leaves it as it is; a word holds no key word but itself         *)
(* ("verse about" stands for the two words in a row).                      *)
(***************************************************************************)
\* the character SUPERSCRIPT TWO: str.isdigit() is True for it, int() rejects it
SuperscriptTwo == "U+00B2"

IntentWords ==
    {"get_verse", "from", "From", "3", SuperscriptTwo, "john", "today", "verse about", "list"}

\* str.lower() of a word
Lower(w) == IF w = "From" THEN "from" ELSE w

\* str.isdigit() of a one-character word
isdigit(w) == IsDigit(w) \/ w = SuperscriptTwo

\* the keys of TOOL_REGISTRY
TOOL_REGISTRY == {"fetch_daily_verse", "search_topic", "get_book_list", "get_verse_by_chapter"}

\* `word in text`
Contains(text, word) == \E i \in 1..Len(text) : text[i] = word

\* text.split(word)[0] and text.split(word)[1], for a text that holds the word
FirstIndex(text, word) ==
    CHOOSE i \in 1..Len(text) : text[i] = word /\ \A j \in 1..(i - 1) : text[j] # word
SplitHead(text, word) == SubSeq(text, 1, FirstIndex(text, word) - 1)
SplitSecond(text, word) ==
    LET rest == SubSeq(text, FirstIndex(text, word) + 1, Len(text))
    IN  IF Contains(rest, word) THEN SplitHead(rest, word) ELSE rest

\* the values of 'param': None, a text, or the dictionary of book and chapter
NoParam == [kind |-> "None", text |-> <<>>, chapter |-> 0]
TextParam(text) == [kind |-> "str", text |-> text, chapter |-> 0]
VerseParam(book, chapter) == [kind |-> "dict", text |-> book, chapter |-> chapter]

\* what a call of parse_intent does: return the dictionary or raise
Intent(action, param) == [raised |-> FALSE, exc |-> "-", action |-> action, param |-> param]
IntentRaised(exc) == [raised |-> TRUE, exc |-> exc, action |-> "-", param |-> NoParam]

parse_intent(user_input) ==
    LET normalized_input == [i \in 1..Len(user_input) |-> Lower(user_input[i])]
    IN  IF Contains(normalized_input, "get_verse") \/ Contains(normalized_input, "from")
        THEN IF ~Contains(normalized_input, "from")
             THEN IntentRaised("IndexError")
             ELSE LET book == SplitSecond(normalized_input, "from")
                      chapter_str == SelectSeq(SplitHead(normalized_input, "from"), isdigit)
                  IN  IF chapter_str # <<>>
                      THEN IF IntTextOk(<<chapter_str[1]>>)
                           THEN Intent("get_verse_by_chapter",
                                       VerseParam(book, IntOfText(<<chapter_str[1]>>)))
                           ELSE IntentRaised("ValueError")
                      ELSE Intent("no_intent", NoParam)
        ELSE IF Contains(normalized_input, "today") \/ Contains(normalized_input, "daily")
        THEN Intent("fetch_daily_verse", NoParam)
        ELSE IF Contains(normalized_input, "verse about")
        THEN Intent("search_topic", TextParam(SplitSecond(normalized_input, "verse about")))
        ELSE IF Contains(normalized_input, "list") \/ Contains(normalized_input, "books")
        THEN Intent("get_book_list", NoParam)
        ELSE Intent("no_intent", NoParam)

InitIntent ==
    /\ InitRun
    /\ given \in [user_input : SeqsUpTo(IntentWords, MaxWords)]
    /\ rets = <<>>

\* intent = parse_intent(user_input)
IntentCall ==
    /\ rets = <<>>
    /\ rets' = <<parse_intent(given.user_input)>>
    /\ UNCHANGED <<given, tools, turn, pc, user_msg, tool_chat_history,
                   agent_chat_history, locals, result, requests, executions, log>>

NextIntent == IntentCall

SpecIntent == InitIntent /\ [][NextIntent]_vars

\* C22: for every input text parse_intent returns, without raising, a
\* dictionary whose action is "no_intent" or a key of TOOL_REGISTRY; this
\* includes the texts that hold "get_verse" and not "from".
C22_ParseIntentTotal ==
    Len(rets) = 1 =>
        /\ ~rets[1].raised
        /\ rets[1].action \in TOOL_REGISTRY \cup {"no_intent"}

====
